---- MODULE Spec2Model ----
(***************************************************************************)
(* Model of the Ansible module hdcrypt_auth.py (ibm.power_aix): one        *)
(* invocation of main(), from the parsed module parameters to exit_json,   *)
(* fail_json or an unhandled Python exception.                             *)
(*                                                                         *)
(* Strings that the code slices, splits, lower-cases or measures are       *)
(* sequences of one-character strings; a status text is a sequence of      *)
(* lines and a line is the sequence of tokens str.split() returns.         *)
(***************************************************************************)
EXTENDS Integers, Sequences, FiniteSets, TLC

VARIABLES
    params,     \* module.params
    lv_status,  \* stdout of "hdcryptmgr showlv <device> -v" for the device
    results,    \* the module-level results dict
    curr_auth,  \* the facts the action handler got from get_auth_details
    ran,        \* the module.run_command calls made, in order, with their exit codes
    pc,         \* position in main()
    outcome,    \* how the invocation ended
    session,    \* the expect process run_command started for a passphrase
    tool        \* the hdcryptmgr process the expect script spawned

vars == <<params, lv_status, results, curr_auth, ran, pc, outcome, session, tool>>

(***************************************************************************)
(* Bounds                                                                  *)
(***************************************************************************)
\* Largest number of lines after the header in a status text.
MaxLines == 2

(***************************************************************************)
(* Python values                                                           *)
(***************************************************************************)
\* None for an optional str parameter: no string of characters equals it.
None == <<"None">>

\* None for the optional int parameter auth_index; <<i>> is the integer i.
NoIndex == <<>>

\* bool(s) of an optional str: None and "" are falsy.
Truthy(s) == s # None /\ s # <<>>

\* bool(i) of an optional int: None and 0 are falsy.
TruthyInt(ix) == ix # NoIndex /\ ix[1] # 0

\* str(i) of a small non-negative int.
Digits == <<"0", "1", "2", "3", "4", "5", "6", "7", "8", "9">>

IntToStr(i) == <<Digits[i + 1]>>

UpperChars == <<"A", "B", "C", "D", "E", "F", "G", "H", "I", "J", "K", "L", "M",
                "N", "O", "P", "Q", "R", "S", "T", "U", "V", "W", "X", "Y", "Z">>

LowerChars == <<"a", "b", "c", "d", "e", "f", "g", "h", "i", "j", "k", "l", "m",
                "n", "o", "p", "q", "r", "s", "t", "u", "v", "w", "x", "y", "z">>

\* The punctuation class of the password pattern, but for the grave accent,
\* which a TLA+ string cannot hold: no password of the model has one.
PunctChars == {"~", "!", "@", "#", "$", "%", "^", "&", "*", "(", ")", "_",
               "-", "+", "=", "{", "[", "}", "]", "|", "\\", ":", ";", "\"",
               "'", "<", ",", ">", ".", "?", "/", " "}

SeqRange(s) == {s[i] : i \in DOMAIN s}

\* str.lower()
LowerChar(c) ==
    IF \E i \in DOMAIN UpperChars : UpperChars[i] = c
    THEN LowerChars[CHOOSE i \in DOMAIN UpperChars : UpperChars[i] = c]
    ELSE c

Lower(s) == [i \in DOMAIN s |-> LowerChar(s[i])]

\* s[1:]
DropFirst(s) == IF s = <<>> THEN <<>> ELSE Tail(s)

\* x in list
InList(x, list) == \E i \in DOMAIN list : list[i] = x

(***************************************************************************)
(* Words of the tool's vocabulary                                          *)
(***************************************************************************)
DEVICE == <<"l", "v">>

W_uninitialized == <<"u", "n", "i", "n", "i", "t", "i", "a", "l", "i", "z", "e", "d">>
W_locked == <<"l", "o", "c", "k", "e", "d">>
W_unlocked == <<"u", "n", "l", "o", "c", "k", "e", "d">>

\* The choices of auth_type.
PWD == <<"p", "w", "d">>
KEYFILE == <<"k", "e", "y", "f", "i", "l", "e">>
PKS == <<"p", "k", "s">>

\* Type words as the tool prints them in slot lines.
T_Passphrase == <<"P", "a", "s", "s", "p", "h", "r", "a", "s", "e">>
T_PKS == <<"P", "K", "S">>

\* Method names.
N1 == <<"k", "1">>
N2 == <<"k", "2">>

\* A key-file path for auth_detail.
DETAIL == <<"/", "k">>

\* Passwords: weak and strong (12 characters, all four classes).
PW_WEAK == <<"p", "w">>
PW_STRONG == <<"A", "b", "1", "!", "a", "a", "a", "a", "a", "a", "a", "a">>

(***************************************************************************)
(* results and messages                                                    *)
(***************************************************************************)
\* A message: literal text, the command line formatted into it, and the
\* action named by the suffix main() appends ("" when no suffix).
Msg(text) == [text |-> text, cmd |-> <<>>, done |-> ""]

\* Variant: the command line is left out of the message.
MsgCmd_without_cmd(text, cmd) == [text |-> text, cmd |-> <<>>, done |-> ""]

MsgCmd(text, cmd) == [text |-> text, cmd |-> cmd, done |-> ""]

results_init ==
    [changed |-> FALSE, cmd |-> <<>>, msg |-> Msg(""), rc |-> 0,
     stdout |-> "", stderr |-> ""]

\* One token of a command line: a literal and the value formatted after it.
Tok(lit, val) == [f |-> lit, v |-> val]

\* What module.run_command receives: the command line, bare or substituted
\* into the expectPrompts template of the given key together with the
\* password and the template's last argument.
Direct(cmd) == [template |-> "", cmd |-> cmd, password |-> None, arg |-> None]

\* Variant: the template is not applied.
Expect_unwrapped(key, cmd, password, arg) == Direct(cmd)

Expect(key, cmd, password, arg) ==
    [template |-> key, cmd |-> cmd, password |-> password, arg |-> arg]

\* The values substituted for the %s of expectPrompts[key] after the first,
\* which is the spawned command line: they stand in the send and expect
\* clauses of the script.
script_values(command) ==
    CASE command.template \in {"authinit_weak_pwd", "authinit_strong_pwd"} ->
            <<command.password, command.password>>
      [] command.template \in {"authadd_weak_pwd", "authadd_strong_pwd"} ->
            <<command.password, command.password, command.arg>>
      [] command.template = "unlock" -> <<command.password, command.arg>>
      [] command.template \in {"authdelete", "authcheck"} -> <<command.password>>
      [] OTHER -> <<>>

\* The parameter values in the words of the process module.run_command
\* launches.  A bare command line is split into its words; a template is
\* "/usr/bin/expect -c '<script>'", whose last word is the whole script.
argv_values(command) ==
    {command.cmd[i].v : i \in DOMAIN command.cmd}
        \cup SeqRange(script_values(command))

\* An entry of the log of module.run_command calls: the command and the
\* exit code it returned.
Ran(command, rc) == [command |-> command, rc |-> rc]

\* The exit code the unlock, delete and check flows report as a wrong password.
WRONG_PASSWORD_RC == 5

\* Exit codes of the status query and of the action's command.
QueryRCs == {0, 1}

RCs == {0, 1, WRONG_PASSWORD_RC}

(***************************************************************************)
(* check_password_strength                                                 *)
(***************************************************************************)
\* The line feed, the one character that "." of the pattern does not match.
LF == "\n"

\* re.search(pattern, password): a position from which each of the four
\* lookaheads (?=.*[class]) finds a character of its class with no line feed
\* before it.
check_password_strength(password) ==
    LET ahead(i, class) ==
            \E j \in i..Len(password) :
                /\ password[j] \in class
                /\ \A k \in i..(j - 1) : password[k] # LF
        matches == \E i \in 1..(Len(password) + 1) :
                       /\ ahead(i, SeqRange(UpperChars))
                       /\ ahead(i, SeqRange(LowerChars))
                       /\ ahead(i, SeqRange(Digits))
                       /\ ahead(i, PunctChars)
        weak_pass == (Len(password) < 12) \/ ~matches
    IN  ~weak_pass

(***************************************************************************)
(* get_auth_details                                                        *)
(***************************************************************************)
\* curr_auth[device] = {}: keys holds which of the fixed keys are set,
\* types maps each lower-cased type word seen to the names listed under it.
auth_empty ==
    [keys |-> {}, initialized |-> "", locked |-> "",
     types |-> <<>>, index |-> <<>>, auth_names |-> <<>>]

\* The facts the handler has when it never obtained any.
NoFacts == [auth_empty EXCEPT !.keys = {"none"}]

HasKey(auth, k) == k \in auth.keys

\* "#" in line[0]
HasHash(token) == \E i \in DOMAIN token : token[i] = "#"

HasType(auth, t) == \E i \in DOMAIN auth.types : auth.types[i].type = t

\* The body of the elif branch for a slot line with at least two tokens.
slot_line(auth, line) ==
    LET auth_index == line[1]
        auth_type == Lower(line[2])
        auth_name == IF Len(line) > 2 THEN line[3] ELSE None
        t0 == IF HasType(auth, auth_type) THEN auth.types
              ELSE Append(auth.types, [type |-> auth_type, names |-> <<>>])
        t1 == IF auth_name # None
              THEN [i \in DOMAIN t0 |->
                       IF t0[i].type = auth_type
                       THEN [t0[i] EXCEPT !.names = Append(@, auth_name)]
                       ELSE t0[i]]
              ELSE t0
    IN  [auth EXCEPT
            !.types = t1,
            !.keys = @ \cup {"index", "auth_names"},
            !.index = Append(@, DropFirst(auth_index)),
            !.auth_names = IF auth_name # None THEN Append(@, auth_name) ELSE @]

\* The loop over stdout_lines[1:]; exc names the exception a line raised.
RECURSIVE parse_lines(_, _, _)
parse_lines(lines, device, auth) ==
    IF lines = <<>> THEN [exc |-> "", auth |-> auth]
    ELSE
        LET line == Head(lines) IN
        IF Len(line) = 0 THEN [exc |-> "IndexError", auth |-> auth]
        ELSE IF line[1] = device THEN
            LET a0 == [auth EXCEPT !.keys = @ \cup {"initialized", "locked"},
                                   !.initialized = "no", !.locked = "no"]
            IN  IF Len(line) < 2 THEN [exc |-> "IndexError", auth |-> a0]
                ELSE IF line[2] # W_uninitialized
                THEN parse_lines(Tail(lines), device,
                        [a0 EXCEPT !.initialized = "yes",
                                   !.locked = IF line[2] = W_locked
                                              THEN "yes" ELSE "no"])
                ELSE [exc |-> "", auth |-> a0]
        ELSE IF HasHash(line[1]) THEN
            IF Len(line) < 2 THEN [exc |-> "IndexError", auth |-> auth]
            ELSE parse_lines(Tail(lines), device, slot_line(auth, line))
        ELSE parse_lines(Tail(lines), device, auth)

ShowlvCmd(device) ==
    Direct(<<Tok("hdcryptmgr showlv", device), Tok("-v", <<>>)>>)

\* kind is "ok" (auth returned), "fail_json" or "exception".
get_auth_details(res, text, device, rc) ==
    IF rc # 0
    THEN [kind |-> "fail_json", auth |-> NoFacts,
          results |-> [res EXCEPT
              !.stderr = "stderr", !.rc = rc,
              !.msg = Msg("Could not get the details about current authentication methods.")]]
    ELSE
        LET p == parse_lines(DropFirst(text), device, auth_empty) IN
        IF p.exc # ""
        THEN [kind |-> "exception", auth |-> NoFacts, results |-> res]
        ELSE [kind |-> "ok", auth |-> p.auth, results |-> res]

(***************************************************************************)
(* Action handlers.  Each is the whole function: its status query, its     *)
(* validations, the command it runs and the exit code rc that command      *)
(* returns (qrc is the status query's).  The result names how the handler  *)
(* left: "return" (with main's results["msg"] = <returned message>         *)
(* applied), "exit_json", "fail_json" or "exception".                      *)
(***************************************************************************)
Left(kind, res, cmds, auth) ==
    [kind |-> kind, results |-> res, ran |-> cmds, auth |-> auth]

\* if rc: results["stderr"] = stderr; results["rc"] = rc; results["msg"] = msg
failed_results(res, rc, msg) ==
    [res EXCEPT !.stderr = "stderr", !.rc = rc, !.msg = msg]

\* Variant: only exit code 1 is taken as a failure.
command_failed_only_one(rc) == rc = 1

\* Variant: only the wrong-password exit code is taken as a failure.
command_failed_only_five(rc) == rc = 5

\* if rc:
command_failed(rc) == rc # 0

\* Variant: only the empty password is refused.
password_missing_empty(password) == password = <<>>

\* password != "" and not password
password_missing(password) == password # <<>> /\ ~Truthy(password)

\* Variant: exit code 5 is not told apart.
failure_message_generic(rc, wrong_password_msg, fail_msg) == fail_msg

\* The message of a failed delete, unlock or check command.
failure_message(rc, wrong_password_msg, fail_msg) ==
    IF rc = WRONG_PASSWORD_RC THEN wrong_password_msg ELSE fail_msg

FailText == "The following command failed: {cmd}. Check stderr for more information."

\* Variant: the comparison is made with "Yes".
init_already_initialized_case(auth) == auth.initialized = "Yes"

\* curr_auth[device]["initialized"] == "yes"
init_already_initialized(auth) == auth.initialized = "yes"

auth_init(p, text, qrc, rc, res) ==
    LET device == p.device
        q == get_auth_details(res, text, device, qrc)
        ran0 == <<Ran(ShowlvCmd(device), qrc)>>
    IN
    IF q.kind # "ok" THEN Left(q.kind, q.results, ran0, NoFacts)
    ELSE IF ~HasKey(q.auth, "initialized")
    THEN Left("exception", res, ran0, q.auth)
    ELSE IF init_already_initialized(q.auth)
    THEN Left("exit_json",
              [res EXCEPT !.msg = Msg("No need to initialize, the LV is already initialized.")],
              ran0, q.auth)
    ELSE
        LET c0 == <<Tok("/usr/sbin/hdcryptmgr authinit", <<>>)>>
            c1 == IF Truthy(p.auth_detail)
                  THEN Append(c0, Tok("-e", p.auth_detail)) ELSE c0
            c2 == IF Truthy(p.auth_name)
                  THEN Append(c1, Tok("-n", p.auth_name)) ELSE c1
            joined_cmd == Append(c2, Tok("", device))
            password == p.password
            success_msg ==
                MsgCmd("Successfully initialized authentication method, command: {cmd}",
                       joined_cmd)
            fail_msg == MsgCmd(FailText, joined_cmd)
        IN
        \* len(None) raises TypeError in check_password_strength
        IF password = None THEN Left("exception", res, ran0, q.auth)
        ELSE
            LET cmd == IF ~check_password_strength(password)
                       THEN Expect("authinit_weak_pwd", joined_cmd, password, None)
                       ELSE Expect("authinit_strong_pwd", joined_cmd, password, None)
                ran1 == Append(ran0, Ran(cmd, rc))
            IN  IF command_failed(rc)
                THEN Left("fail_json", failed_results(res, rc, fail_msg), ran1, q.auth)
                ELSE Left("return", [res EXCEPT !.msg = success_msg], ran1, q.auth)

\* Variant: the comparison is made with "No".
add_uninitialized_case(auth) == auth.initialized = "No"

\* curr_auth[device]["initialized"] == "no"
add_uninitialized(auth) == auth.initialized = "no"

\* Variant: the detail is required of pks instead of keyfile.
add_keyfile_without_detail_pks(type, method_detail) ==
    ~Truthy(method_detail) /\ type = PKS

\* Variant: the test is left out.
add_keyfile_without_detail_never(type, method_detail) == FALSE

\* type == "keyfile" in the else branch of "if method_detail"
add_keyfile_without_detail(type, method_detail) ==
    ~Truthy(method_detail) /\ type = KEYFILE

\* Variant: the name is looked up in the index list.
add_name_present_in_index(auth, name) ==
    HasKey(auth, "index") /\ InList(name, auth.index)

\* "auth_names" in keys and name in curr_auth[device]["auth_names"]
add_name_present(auth, name) ==
    HasKey(auth, "auth_names") /\ InList(name, auth.auth_names)

\* Variant: the type key is looked up as the tool prints it, not lower-cased.
add_pks_exists_as_printed(auth, type) == type = PKS /\ HasType(auth, T_PKS)

\* type == "pks" and "pks" in curr_auth[device].keys()
add_pks_exists(auth, type) == type = PKS /\ HasType(auth, PKS)

auth_add(p, text, qrc, rc, res) ==
    LET device == p.device
        q == get_auth_details(res, text, device, qrc)
        ran0 == <<Ran(ShowlvCmd(device), qrc)>>
        stop(text_) == Left("fail_json", [res EXCEPT !.msg = Msg(text_)], ran0, q.auth)
        type == p.auth_type
        method_detail == p.auth_detail
        name == p.auth_name
        c0 == <<Tok("/usr/sbin/hdcryptmgr authadd", <<>>), Tok("-t", type)>>
        c1 == IF Truthy(method_detail) THEN Append(c0, Tok("-m", method_detail)) ELSE c0
        c2 == IF Truthy(name) THEN Append(c1, Tok("-n", name)) ELSE c1
        cmd == Append(c2, Tok("", device))
        success_msg ==
            MsgCmd("Successfully added authentication method, command: {cmd}", cmd)
        fail_msg == MsgCmd(FailText, cmd)
        password == p.password
        run(command) ==
            LET ran1 == Append(ran0, Ran(command, rc)) IN
            IF command_failed(rc)
            THEN Left("fail_json", failed_results(res, rc, fail_msg), ran1, q.auth)
            ELSE Left("return", [res EXCEPT !.msg = success_msg], ran1, q.auth)
    IN
    IF q.kind # "ok" THEN Left(q.kind, q.results, ran0, NoFacts)
    ELSE IF ~HasKey(q.auth, "initialized")
    THEN Left("exception", res, ran0, q.auth)
    ELSE IF add_uninitialized(q.auth)
    THEN stop("The provided LV is uninitialized, you can not add authentication methods.")
    ELSE IF ~Truthy(type)
    THEN stop("You need to specify the type of authentication method to use.")
    ELSE IF add_keyfile_without_detail(type, method_detail)
    THEN stop("You need to provide the key file's location in auth_detail, when auth_type is set to keyfile.")
    ELSE IF Truthy(name) /\ add_name_present(q.auth, name)
    THEN stop("The provided authentication method's name is already present, kindly use a different one.")
    ELSE IF type = PWD
    THEN IF password_missing(password)
         THEN stop("In case of pwd auth type, you need to provide password.")
         ELSE IF ~check_password_strength(password)
         THEN run(Expect("authadd_weak_pwd", cmd, password, name))
         ELSE run(Expect("authadd_strong_pwd", cmd, password, name))
    ELSE IF add_pks_exists(q.auth, type)
    THEN stop("PKS authentication method already exists, can not add a new one.")
    ELSE run(Direct(cmd))

\* "index" not in keys or str(index) not in curr_auth[device]["index"]
delete_index_missing(auth, index) ==
    ~HasKey(auth, "index") \/ ~InList(IntToStr(index[1]), auth.index)

\* Variant: only the presence of the list is tested.
delete_name_missing_key_only(auth, name) == ~HasKey(auth, "auth_names")

\* "auth_names" not in keys or name not in curr_auth[device]["auth_names"]
delete_name_missing(auth, name) ==
    ~HasKey(auth, "auth_names") \/ ~InList(name, auth.auth_names)

\* Variant: the test is left out.
neither_name_nor_index_skipped(name, index) == FALSE

\* not name and not index
neither_name_nor_index(name, index) == ~Truthy(name) /\ ~TruthyInt(index)

auth_delete(p, text, qrc, rc, res) ==
    LET device == p.device
        q == get_auth_details(res, text, device, qrc)
        ran0 == <<Ran(ShowlvCmd(device), qrc)>>
        stop(text_) == Left("fail_json", [res EXCEPT !.msg = Msg(text_)], ran0, q.auth)
        type == p.auth_type
        auth_detail == p.auth_detail
        index == p.auth_index
        name == p.auth_name
        c0 == <<Tok("/usr/sbin/hdcryptmgr authdelete", <<>>), Tok("-t", type)>>
        c1 == IF Truthy(auth_detail) THEN Append(c0, Tok("-m", auth_detail)) ELSE c0
        c2 == IF TruthyInt(index) THEN Append(c1, Tok("-i", IntToStr(index[1]))) ELSE c1
        c3 == IF Truthy(name) THEN Append(c2, Tok("-n", name)) ELSE c2
        c4 == IF p.force THEN Append(c3, Tok("-f", <<>>)) ELSE c3
        cmd == Append(c4, Tok("", device))
        success_msg ==
            MsgCmd("Successfully deleted the authentication method, command: {cmd}", cmd)
        fail_msg == MsgCmd(FailText, cmd)
        password == p.password
        run(command) ==
            LET ran1 == Append(ran0, Ran(command, rc)) IN
            IF command_failed(rc)
            THEN Left("fail_json",
                      failed_results(res, rc,
                          failure_message(rc,
                              Msg("Could not delete the auth method, incorrect password provided."),
                              fail_msg)),
                      ran1, q.auth)
            ELSE Left("return", [res EXCEPT !.msg = success_msg], ran1, q.auth)
    IN
    IF q.kind # "ok" THEN Left(q.kind, q.results, ran0, NoFacts)
    ELSE IF ~Truthy(type)
    THEN stop("Please provide the authentication type of the method that you want to delete.")
    ELSE IF TruthyInt(index) /\ delete_index_missing(q.auth, index)
    THEN stop("The provided auth_index does not exist for this device's methods.")
    ELSE IF Truthy(name) /\ delete_name_missing(q.auth, name)
    THEN stop("The provided auth_name does not exist for this device's methods.")
    ELSE IF neither_name_nor_index(name, index)
    THEN stop("You need to either provide the name or index of the method that you want to delete.")
    ELSE IF type = PWD
    THEN IF password_missing(password)
         THEN stop("In case of pwd auth type, you need to provide password.")
         ELSE run(Expect("authdelete", cmd, password, None))
    ELSE IF type = KEYFILE /\ ~Truthy(auth_detail)
    THEN stop("You need to provide the location of key file with type=keyfile.")
    ELSE run(Direct(cmd))

\* Variant: the comparison is made with "No".
unlock_not_locked_case(auth) == auth.locked = "No"

\* curr_auth_details[device]["locked"] == "no"
unlock_not_locked(auth) == auth.locked = "no"

\* Variant: the conflict needs both auth_type and auth_detail.
unlock_auto_conflict_both(auto_key_protection, auth_type, auth_detail) ==
    auto_key_protection /\ Truthy(auth_type) /\ Truthy(auth_detail)

\* Variant: only auth_detail conflicts.
unlock_auto_conflict_detail_only(auto_key_protection, auth_type, auth_detail) ==
    auto_key_protection /\ Truthy(auth_detail)

\* module.params["auto_key_protection"] and (auth_type or auth_detail)
unlock_auto_conflict(auto_key_protection, auth_type, auth_detail) ==
    auto_key_protection /\ (Truthy(auth_type) \/ Truthy(auth_detail))

auth_unlock(p, text, qrc, rc, res) ==
    LET device == p.device
        q == get_auth_details(res, text, device, qrc)
        ran0 == <<Ran(ShowlvCmd(device), qrc)>>
        stop(text_) == Left("fail_json", [res EXCEPT !.msg = Msg(text_)], ran0, q.auth)
        auth_type == p.auth_type
        auth_detail == p.auth_detail
        c0 == <<Tok("/usr/sbin/hdcryptmgr authunlock", <<>>), Tok("-t", auth_type)>>
        c1 == IF Truthy(auth_detail) THEN Append(c0, Tok("-m", auth_detail)) ELSE c0
        c2 == IF p.auto_key_protection THEN Append(c1, Tok("-A", <<>>)) ELSE c1
        cmd == Append(c2, Tok("", device))
        success_msg ==
            MsgCmd("Successfully unlocked the authentication method, command: {cmd}", cmd)
        fail_msg == MsgCmd(FailText, cmd)
        password == p.password
        run(command) ==
            LET ran1 == Append(ran0, Ran(command, rc)) IN
            IF command_failed(rc)
            THEN Left("fail_json",
                      failed_results(res, rc,
                          failure_message(rc,
                              Msg("Could not unlock the device using the provided auth method, incorrect password provided."),
                              fail_msg)),
                      ran1, q.auth)
            ELSE Left("return", [res EXCEPT !.msg = success_msg], ran1, q.auth)
    IN
    IF q.kind # "ok" THEN Left(q.kind, q.results, ran0, NoFacts)
    ELSE IF ~HasKey(q.auth, "locked")
    THEN Left("exception", res, ran0, q.auth)
    ELSE IF unlock_not_locked(q.auth)
    THEN Left("exit_json",
              [res EXCEPT !.msg = Msg("The provided device is already unlocked.")],
              ran0, q.auth)
    ELSE IF ~Truthy(auth_type)
    THEN stop("You need to provide the auth_type that you want to use.")
    ELSE IF unlock_auto_conflict(p.auto_key_protection, auth_type, auth_detail)
    THEN stop("Can not use auth_detail or auth_type when auth_key_protection is set.")
    ELSE IF auth_type = PWD
    THEN IF password_missing(password)
         THEN stop("You need to provide password in case of pwd auth_type")
         ELSE run(Expect("unlock", cmd, password, device))
    ELSE IF auth_type = KEYFILE /\ ~Truthy(auth_detail)
    THEN stop("You need to provide the location in auth_detail, when type = keyfile.")
    ELSE run(Direct(cmd))

\* auth_type == "keyfile" and not index and not name
check_keyfile_without_name_or_index(auth_type, name, index) ==
    auth_type = KEYFILE /\ ~TruthyInt(index) /\ ~Truthy(name)

\* auth_check makes no status query: text and qrc are not read.
auth_check(p, text, qrc, rc, res) ==
    LET stop(text_) == Left("fail_json", [res EXCEPT !.msg = Msg(text_)], <<>>, NoFacts)
        auth_type == p.auth_type
        auth_detail == p.auth_detail
        index == p.auth_index
        name == p.auth_name
        c0 == <<Tok("/usr/sbin/hdcryptmgr authcheck", <<>>), Tok("-t", auth_type)>>
        c1 == IF Truthy(auth_detail) THEN Append(c0, Tok("-m", auth_detail)) ELSE c0
        c2 == IF TruthyInt(index) THEN Append(c1, Tok("-i", IntToStr(index[1]))) ELSE c1
        c3 == IF Truthy(name) THEN Append(c2, Tok("-n", name)) ELSE c2
        cmd == Append(c3, Tok("", p.device))
        success_msg ==
            MsgCmd("Successfully checked the authentication method, command: {cmd}", cmd)
        fail_msg == MsgCmd(FailText, cmd)
        password == p.password
        run(command) ==
            IF command_failed(rc)
            THEN Left("fail_json",
                      failed_results(res, rc,
                          failure_message(rc,
                              Msg("Could not check the auth method, incorrect password provided."),
                              fail_msg)),
                      <<Ran(command, rc)>>, NoFacts)
            ELSE Left("return", [res EXCEPT !.msg = success_msg], <<Ran(command, rc)>>, NoFacts)
    IN
    IF ~Truthy(auth_type)
    THEN stop("You need to provide the authentication type for action=check.")
    ELSE IF auth_type = PWD
    THEN IF password_missing(password)
         THEN stop("You need to provide password in case of pwd auth_type")
         ELSE run(Expect("authcheck", cmd, password, None))
    ELSE IF check_keyfile_without_name_or_index(auth_type, name, index)
    THEN stop("You need to provide either index or name in case of keyfile auth_type.")
    ELSE IF auth_type = KEYFILE /\ ~Truthy(auth_detail)
    THEN stop("You need to provide keyfile path in auth_detail in case of keyfile auth_type.")
    ELSE run(Direct(cmd))

(***************************************************************************)
(* Inputs                                                                  *)
(***************************************************************************)
Header == <<<<"N", "A", "M", "E">>, <<"S", "T", "A", "T", "U", "S">>>>

\* The summary line of the device, with each status word.
SummaryLines ==
    {<<DEVICE, W_uninitialized>>, <<DEVICE, W_locked>>, <<DEVICE, W_unlocked>>}

\* The other lines: slot lines with and without a name, and an empty line.
OtherLines ==
    {<<<<"#", "0">>, T_Passphrase, N1>>,
     <<<<"#", "1">>, T_PKS>>,
     <<<<"#", "1">>, T_PKS, N1>>,
     <<>>}

SeqsUpTo(S, n) == UNION {[1..k -> S] : k \in 0..n}

\* The header, then up to MaxLines lines in any order, of which at most one
\* is the summary line: the query names one device.
StatusTexts ==
    {<<Header>> \o body :
        body \in {b \in SeqsUpTo(SummaryLines \cup OtherLines, MaxLines) :
                    Cardinality({i \in DOMAIN b : b[i] \in SummaryLines}) <= 1}}

AuthTypes == {None, PWD, KEYFILE, PKS}
AuthNames == {None, N1, N2}
AuthDetails == {None, DETAIL}
AuthIndexes == {NoIndex, <<0>>, <<1>>}
Passwords == {None, PW_WEAK, PW_STRONG}

Params(action, auth_type, auth_name, password, auth_detail, auth_index, auto_key_protection, force) ==
    [action |-> action, auth_type |-> auth_type, auth_name |-> auth_name,
     password |-> password, auth_detail |-> auth_detail,
     auth_index |-> auth_index, device |-> DEVICE,
     auto_key_protection |-> auto_key_protection, force |-> force]

\* The parameter records of the argument_spec.  A parameter that the
\* handler of the action never reads keeps its default.
ParamSets ==
    {Params("initialize", None, n, pw, d, NoIndex, FALSE, FALSE) :
        n \in AuthNames, pw \in Passwords, d \in AuthDetails}
    \cup
    {Params("add", t, nd[1], pw, nd[2], NoIndex, FALSE, FALSE) :
        t \in AuthTypes, nd \in AuthNames \X AuthDetails, pw \in Passwords}
    \cup
    {Params("delete", t, nd[1], pw, nd[2], xf[1], FALSE, xf[2]) :
        t \in AuthTypes, nd \in AuthNames \X AuthDetails, pw \in Passwords,
        xf \in AuthIndexes \X BOOLEAN}
    \cup
    {Params("unlock", t, None, pw, da[1], NoIndex, da[2], FALSE) :
        t \in AuthTypes, pw \in Passwords, da \in AuthDetails \X BOOLEAN}
    \cup
    {Params("check", t, nd[1], pw, nd[2], x, FALSE, FALSE) :
        t \in AuthTypes, nd \in AuthNames \X AuthDetails, pw \in Passwords,
        x \in AuthIndexes}

(***************************************************************************)
(* main                                                                    *)
(***************************************************************************)
\* The exit code of a process that is still running.
NoRc == -1

\* No expect process: run_command was not called for a passphrase.
NoSession ==
    [script |-> <<>>, command |-> Direct(<<>>), qrc |-> 0, ip |-> 0,
     bounded |-> TRUE, open |-> FALSE, buf |-> <<>>, inq |-> <<>>,
     rc |-> NoRc, timed_out |-> FALSE, sent_after |-> FALSE, seen |-> FALSE]

\* No hdcryptmgr process under expect.
NoTool ==
    [pc |-> "none", attempt |-> 0, first |-> <<>>, actual |-> <<>>,
     unsecure |-> FALSE, fails |-> FALSE]

Init ==
    /\ params \in ParamSets
    /\ lv_status \in StatusTexts
    /\ results = results_init
    /\ curr_auth = NoFacts
    /\ ran = <<>>
    /\ pc = "main"
    /\ outcome = "running"
    /\ session = NoSession
    /\ tool = NoTool

\* get_auth_details(module, device) in main; its result is dropped.  The
\* test "if not lv_exists" reads the function object and is never true.
MainGetAuthDetails ==
    /\ pc = "main"
    /\ \E qrc \in QueryRCs :
        LET q == get_auth_details(results, lv_status, params.device, qrc) IN
        /\ results' = q.results
        /\ ran' = Append(ran, Ran(ShowlvCmd(params.device), qrc))
        /\ pc' = IF q.kind = "ok" THEN "dispatch" ELSE "done"
        /\ outcome' = IF q.kind = "ok" THEN "running" ELSE q.kind
    /\ UNCHANGED <<params, lv_status, curr_auth, session, tool>>

\* results["msg"] = <handler>(module), or the handler's own exit.
Handled(r) ==
    /\ results' = r.results
    /\ ran' = ran \o r.ran
    /\ curr_auth' = r.auth
    /\ pc' = IF r.kind = "return" THEN "finish" ELSE "done"
    /\ outcome' = IF r.kind = "return" THEN "running" ELSE r.kind
    /\ UNCHANGED <<params, lv_status, session, tool>>

AuthInit ==
    /\ pc = "dispatch"
    /\ params.action = "initialize"
    /\ \E qrc \in QueryRCs, rc \in RCs :
        Handled(auth_init(params, lv_status, qrc, rc, results))

AuthAdd ==
    /\ pc = "dispatch"
    /\ params.action = "add"
    /\ \E qrc \in QueryRCs, rc \in RCs :
        Handled(auth_add(params, lv_status, qrc, rc, results))

AuthUnlock ==
    /\ pc = "dispatch"
    /\ params.action = "unlock"
    /\ \E qrc \in QueryRCs, rc \in RCs :
        Handled(auth_unlock(params, lv_status, qrc, rc, results))

AuthDelete ==
    /\ pc = "dispatch"
    /\ params.action = "delete"
    /\ \E qrc \in QueryRCs, rc \in RCs :
        Handled(auth_delete(params, lv_status, qrc, rc, results))

AuthCheck ==
    /\ pc = "dispatch"
    /\ params.action \notin {"initialize", "add", "unlock", "delete"}
    /\ \E qrc \in QueryRCs, rc \in RCs :
        Handled(auth_check(params, lv_status, qrc, rc, results))

\* Variant: changed is set for every action.
changed_after_every_action(action, changed) == TRUE

\* if action != "check": results["changed"] = True
changed_after(action, changed) == IF action # "check" THEN TRUE ELSE changed

\* The end of main after the handler returned.
MainFinish ==
    /\ pc = "finish"
    /\ results' = [results EXCEPT
            !.changed = changed_after(params.action, @),
            !.msg.done = params.action]
    /\ pc' = "done"
    /\ outcome' = "exit_json"
    /\ UNCHANGED <<params, lv_status, curr_auth, ran, session, tool>>

Next ==
    \/ MainGetAuthDetails
    \/ AuthInit
    \/ AuthAdd
    \/ AuthUnlock
    \/ AuthDelete
    \/ AuthCheck
    \/ MainFinish

Spec == Init /\ [][Next]_vars

TypeOK ==
    /\ params \in ParamSets
    /\ pc \in {"main", "dispatch", "finish", "done"}
    /\ outcome \in {"running", "exit_json", "fail_json", "exception"}
    /\ (pc = "done") = (outcome # "running")

(***************************************************************************)
(* Vocabulary of the properties                                            *)
(***************************************************************************)
Done == pc = "done"

\* The action's /usr/sbin/hdcryptmgr auth* command was handed to run_command.
RanAuth ==
    \E i \in DOMAIN ran : ran[i].command.cmd[1].f # "hdcryptmgr showlv"

\* The last run_command call.
LastRun == ran[Len(ran)]

\* What get_auth_details makes of the device's status text.
StatusParse == parse_lines(DropFirst(lv_status), DEVICE, auth_empty)

StatusFacts == StatusParse.auth

\* The status query, taken alone, reports the device as uninitialized.
StatusSaysUninitialized ==
    /\ StatusParse.exc = ""
    /\ HasKey(StatusFacts, "initialized")
    /\ StatusFacts.initialized = "no"

\* The handler's own status query returned facts.
GotFacts == curr_auth # NoFacts

\* main's status query returned, so the handler was entered.
HandlerEntered ==
    /\ Len(ran) >= 1
    /\ ran[1].rc = 0
    /\ StatusParse.exc = ""

NotSucceeded == outcome \in {"fail_json", "exception"}

ValidationFailure(text) ==
    /\ outcome = "fail_json"
    /\ results.msg = Msg(text)
    /\ results.rc = 0
    /\ ~results.changed

(***************************************************************************)
(* C1                                                                      *)
(***************************************************************************)
\* C1 as stated: for add, delete, unlock and check, whenever the status
\* query reports the device as uninitialized, the invocation ends in failure
\* and the action's auth* command is never run.
C1_UninitializedAlwaysFails ==
    (/\ Done
     /\ params.action \in {"add", "delete", "unlock", "check"}
     /\ StatusSaysUninitialized)
    => (NotSucceeded /\ ~RanAuth)

\* C1 amended: on a device reported uninitialized, add fails with its own
\* message and runs no command; delete fails and runs no command when the
\* report lists no method slot; unlock runs no command and ends as the
\* "already unlocked" success with changed = false.
C1_UninitializedAddDeleteFail ==
    (/\ Done
     /\ GotFacts
     /\ HasKey(curr_auth, "initialized")
     /\ curr_auth.initialized = "no")
    => /\ params.action = "add" =>
            /\ ValidationFailure("The provided LV is uninitialized, you can not add authentication methods.")
            /\ ~RanAuth
       /\ (params.action = "delete" /\ curr_auth.index = <<>>
                /\ curr_auth.auth_names = <<>>) =>
            /\ outcome = "fail_json"
            /\ ~results.changed
            /\ ~RanAuth
       /\ params.action = "unlock" =>
            /\ outcome = "exit_json"
            /\ results.msg = Msg("The provided device is already unlocked.")
            /\ ~results.changed
            /\ ~RanAuth

\* Witness of C1: an add with every parameter in order stopped by the
\* uninitialized report.
C1_Witness ==
    /\ Done
    /\ params.action = "add"
    /\ params.auth_type = PKS
    /\ GotFacts
    /\ HasKey(curr_auth, "initialized")
    /\ curr_auth.initialized = "no"
    /\ outcome = "fail_json"
    /\ Len(ran) = 2

(***************************************************************************)
(* C2                                                                      *)
(***************************************************************************)
\* C2: initialize is idempotent: whenever the status query reports the
\* device as already initialized, the invocation ends with the success
\* message, changed = false, and authinit is never run, whatever the other
\* parameters.
C2_InitializeIdempotent ==
    (/\ Done
     /\ params.action = "initialize"
     /\ GotFacts
     /\ HasKey(curr_auth, "initialized")
     /\ curr_auth.initialized = "yes")
    => /\ outcome = "exit_json"
       /\ results.msg = Msg("No need to initialize, the LV is already initialized.")
       /\ ~results.changed
       /\ results.rc = 0
       /\ ~RanAuth

\* Witness of C2: initialize on an initialized device, asked with a name,
\* a detail and no password, ends as the no-op.
C2_Witness ==
    /\ Done
    /\ params.action = "initialize"
    /\ params.auth_name = N1
    /\ params.auth_detail = DETAIL
    /\ params.password = None
    /\ GotFacts
    /\ HasKey(curr_auth, "initialized")
    /\ curr_auth.initialized = "yes"
    /\ outcome = "exit_json"

(***************************************************************************)
(* C3                                                                      *)
(***************************************************************************)
WrongPasswordText(action) ==
    CASE action = "delete" ->
            "Could not delete the auth method, incorrect password provided."
      [] action = "unlock" ->
            "Could not unlock the device using the provided auth method, incorrect password provided."
      [] action = "check" ->
            "Could not check the auth method, incorrect password provided."

\* C3: in unlock, delete and check, once the action's command has run, exit
\* code 0 gives a success, exit code 5 a failure reported as an incorrect
\* password, and every other exit code a failure with the generic message.
C3_ExitCodeClasses ==
    (/\ Done
     /\ params.action \in {"unlock", "delete", "check"}
     /\ RanAuth)
    => /\ LastRun.rc = 0 =>
            /\ outcome = "exit_json"
            /\ results.msg.done = params.action
            /\ results.rc = 0
       /\ LastRun.rc = WRONG_PASSWORD_RC =>
            /\ outcome = "fail_json"
            /\ results.msg = Msg(WrongPasswordText(params.action))
            /\ results.rc = WRONG_PASSWORD_RC
       /\ LastRun.rc \notin {0, WRONG_PASSWORD_RC} =>
            /\ outcome = "fail_json"
            /\ results.msg = MsgCmd(FailText, LastRun.command.cmd)
            /\ results.rc = LastRun.rc

\* Witness of C3: a delete whose command returned 5.
C3_Witness ==
    /\ Done
    /\ params.action = "delete"
    /\ RanAuth
    /\ LastRun.rc = WRONG_PASSWORD_RC
    /\ results.msg = Msg(WrongPasswordText("delete"))

(***************************************************************************)
(* C4                                                                      *)
(***************************************************************************)
\* C4: in all five actions, a non-zero exit code of the action's command
\* ends the invocation in failure, never in success.
C4_NonZeroExitFails ==
    (Done /\ RanAuth /\ LastRun.rc # 0)
    => /\ outcome = "fail_json"
       /\ ~results.changed
       /\ results.rc = LastRun.rc

\* Witness of C4: an initialize whose command returned 1.
C4_Witness ==
    /\ Done
    /\ params.action = "initialize"
    /\ RanAuth
    /\ LastRun.rc = 1
    /\ outcome = "fail_json"

(***************************************************************************)
(* C5                                                                      *)
(***************************************************************************)
\* C5 as stated: for delete and for check, whenever an auth_name is given
\* that is not among the names parsed from the device's status, the
\* invocation fails and the authdelete/authcheck command is never run.
C5_UnknownNameAlwaysFails ==
    (/\ Done
     /\ params.action \in {"delete", "check"}
     /\ Truthy(params.auth_name)
     /\ HandlerEntered
     /\ ~InList(params.auth_name, StatusFacts.auth_names))
    => (NotSucceeded /\ ~RanAuth)

DeleteValidationTexts ==
    {"Please provide the authentication type of the method that you want to delete.",
     "The provided auth_index does not exist for this device's methods.",
     "The provided auth_name does not exist for this device's methods."}

\* C5 amended: for delete, whenever an auth_name is given that is not among
\* the names parsed from the device's status, the invocation fails with a
\* validation failure and authdelete is never run; the failure is the
\* auth_name "does not exist" one when auth_type is given and auth_index is
\* absent, 0 or among the parsed indices.
C5_DeleteUnknownNameFails ==
    (/\ Done
     /\ params.action = "delete"
     /\ GotFacts
     /\ Truthy(params.auth_name)
     /\ ~InList(params.auth_name, curr_auth.auth_names))
    => /\ outcome = "fail_json"
       /\ ~RanAuth
       /\ ~results.changed
       /\ results.rc = 0
       /\ results.msg.text \in DeleteValidationTexts
       /\ (/\ Truthy(params.auth_type)
           /\ \/ ~TruthyInt(params.auth_index)
              \/ InList(IntToStr(params.auth_index[1]), curr_auth.index))
          => results.msg =
                Msg("The provided auth_name does not exist for this device's methods.")

\* Witness of C5: a delete by a name the status does not list, while it
\* lists another name, refused with the "does not exist" failure.
C5_Witness ==
    /\ Done
    /\ params.action = "delete"
    /\ params.auth_name = N2
    /\ GotFacts
    /\ curr_auth.auth_names = <<N1>>
    /\ results.msg = Msg("The provided auth_name does not exist for this device's methods.")
    /\ Len(ran) = 2

(***************************************************************************)
(* C6                                                                      *)
(***************************************************************************)
\* C6, for delete: whenever an auth_index is given (any integer, 0
\* included) that is not among the slot indices parsed from the device's
\* status, the invocation fails with a validation failure and authdelete is
\* never run.
C6_DeleteUnknownIndexFails ==
    (/\ Done
     /\ params.action = "delete"
     /\ GotFacts
     /\ params.auth_index # NoIndex
     /\ ~InList(IntToStr(params.auth_index[1]), curr_auth.index))
    => (outcome = "fail_json" /\ ~RanAuth)

(***************************************************************************)
(* C7                                                                      *)
(***************************************************************************)
\* C7 as stated: for delete and for check, with every auth_type, when
\* auth_name and auth_index are both absent the invocation fails and the
\* authdelete/authcheck command is never run.
C7_NoNameNoIndexAlwaysFails ==
    (/\ Done
     /\ params.action \in {"delete", "check"}
     /\ params.auth_type \in {PWD, KEYFILE, PKS}
     /\ params.auth_name = None
     /\ params.auth_index = NoIndex)
    => (NotSucceeded /\ ~RanAuth)

\* C7 amended: with auth_name and auth_index both absent, delete with every
\* auth_type, and check with auth_type keyfile, fail with the validation
\* failure asking for a name or an index, and run no authdelete/authcheck.
C7_NoNameNoIndexFails ==
    (/\ Done
     /\ params.auth_type \in {PWD, KEYFILE, PKS}
     /\ params.auth_name = None
     /\ params.auth_index = NoIndex)
    => /\ params.action = "delete" =>
            /\ NotSucceeded
            /\ ~RanAuth
            /\ GotFacts =>
                ValidationFailure("You need to either provide the name or index of the method that you want to delete.")
       /\ (params.action = "check" /\ params.auth_type = KEYFILE) =>
            /\ NotSucceeded
            /\ ~RanAuth
            /\ HandlerEntered =>
                ValidationFailure("You need to provide either index or name in case of keyfile auth_type.")

\* Witness of C7: a delete of type pwd with a password and neither name nor
\* index, refused after the status query.
C7_Witness ==
    /\ Done
    /\ params.action = "delete"
    /\ params.auth_type = PWD
    /\ params.password = PW_STRONG
    /\ params.auth_name = None
    /\ params.auth_index = NoIndex
    /\ GotFacts
    /\ results.msg = Msg("You need to either provide the name or index of the method that you want to delete.")

(***************************************************************************)
(* C8                                                                      *)
(***************************************************************************)
\* C8: add with an auth_name that is already among the names parsed from
\* the device's status always fails and never runs authadd, for every
\* auth_type and every other parameter; the failure is the duplicate-name
\* one when the checks that come before it in auth_add pass.
C8_AddDuplicateNameFails ==
    (/\ Done
     /\ params.action = "add"
     /\ Truthy(params.auth_name)
     /\ GotFacts
     /\ InList(params.auth_name, curr_auth.auth_names))
    => /\ NotSucceeded
       /\ ~RanAuth
       /\ ~results.changed
       /\ HasKey(curr_auth, "initialized") => outcome = "fail_json"
       /\ (/\ HasKey(curr_auth, "initialized")
           /\ curr_auth.initialized = "yes"
           /\ Truthy(params.auth_type)
           /\ ~(params.auth_type = KEYFILE /\ ~Truthy(params.auth_detail)))
          => ValidationFailure("The provided authentication method's name is already present, kindly use a different one.")

\* Witness of C8: an add of type pwd with a strong password, refused for
\* its name on an initialized device.
C8_Witness ==
    /\ Done
    /\ params.action = "add"
    /\ params.auth_type = PWD
    /\ params.password = PW_STRONG
    /\ params.auth_name = N1
    /\ GotFacts
    /\ InList(N1, curr_auth.auth_names)
    /\ results.msg = Msg("The provided authentication method's name is already present, kindly use a different one.")

(***************************************************************************)
(* C9                                                                      *)
(***************************************************************************)
\* C9: add with auth_type keyfile and no auth_detail fails and never runs
\* authadd; on a device reported initialized the failure is the validation
\* failure that cites the missing key-file location.
C9_AddKeyfileNeedsDetail ==
    (/\ Done
     /\ params.action = "add"
     /\ params.auth_type = KEYFILE
     /\ ~Truthy(params.auth_detail))
    => /\ NotSucceeded
       /\ ~RanAuth
       /\ (/\ GotFacts
           /\ HasKey(curr_auth, "initialized")
           /\ curr_auth.initialized = "yes")
          => ValidationFailure("You need to provide the key file's location in auth_detail, when auth_type is set to keyfile.")

\* Witness of C9: such an add, refused with the key-file message.
C9_Witness ==
    /\ Done
    /\ params.action = "add"
    /\ params.auth_type = KEYFILE
    /\ params.auth_detail = None
    /\ params.auth_name = N2
    /\ results.msg = Msg("You need to provide the key file's location in auth_detail, when auth_type is set to keyfile.")
    /\ Len(ran) = 2

(***************************************************************************)
(* C10                                                                     *)
(***************************************************************************)
\* The status text has, after its header, a slot line of type PKS.
StatusListsPks ==
    \E i \in DOMAIN lv_status :
        /\ i > 1
        /\ Len(lv_status[i]) >= 2
        /\ HasHash(lv_status[i][1])
        /\ lv_status[i][2] = T_PKS

\* C10: add with auth_type pks fails and never runs authadd whenever the
\* device's status already lists a pks slot, named or not; the failure is
\* the "PKS already exists" one when the device is reported initialized and
\* the given name, if any, is not already present.
C10_AddSinglePks ==
    (/\ Done
     /\ params.action = "add"
     /\ params.auth_type = PKS
     /\ GotFacts
     /\ StatusListsPks)
    => /\ NotSucceeded
       /\ ~RanAuth
       /\ HasKey(curr_auth, "initialized") => outcome = "fail_json"
       /\ (/\ HasKey(curr_auth, "initialized")
           /\ curr_auth.initialized = "yes"
           /\ ~(Truthy(params.auth_name)
                    /\ InList(params.auth_name, curr_auth.auth_names)))
          => ValidationFailure("PKS authentication method already exists, can not add a new one.")

\* Witness of C10: an add of type pks refused on a device whose only pks
\* slot has no name.
C10_Witness ==
    /\ Done
    /\ params.action = "add"
    /\ params.auth_type = PKS
    /\ GotFacts
    /\ curr_auth.auth_names = <<>>
    /\ curr_auth.index = <<<<"1">>>>
    /\ results.msg = Msg("PKS authentication method already exists, can not add a new one.")

(***************************************************************************)
(* C11                                                                     *)
(***************************************************************************)
\* C11: unlock on a device reported locked, with auto_key_protection set and
\* auth_type or auth_detail also set, fails and never runs authunlock; the
\* failure is the conflict one when auth_type is given, and the one asking
\* for auth_type when only auth_detail is given.
C11_UnlockAutoConflictFails ==
    (/\ Done
     /\ params.action = "unlock"
     /\ GotFacts
     /\ HasKey(curr_auth, "locked")
     /\ curr_auth.locked = "yes"
     /\ params.auto_key_protection
     /\ (Truthy(params.auth_type) \/ Truthy(params.auth_detail)))
    => /\ outcome = "fail_json"
       /\ ~RanAuth
       /\ Truthy(params.auth_type) =>
            ValidationFailure("Can not use auth_detail or auth_type when auth_key_protection is set.")
       /\ ~Truthy(params.auth_type) =>
            ValidationFailure("You need to provide the auth_type that you want to use.")

\* Witness of C11: an unlock of type pks with auto_key_protection and no
\* auth_detail, refused on a locked device for the conflict.
C11_Witness ==
    /\ Done
    /\ params.action = "unlock"
    /\ params.auto_key_protection
    /\ params.auth_type = PKS
    /\ params.auth_detail = None
    /\ GotFacts
    /\ HasKey(curr_auth, "locked")
    /\ curr_auth.locked = "yes"
    /\ results.msg = Msg("Can not use auth_detail or auth_type when auth_key_protection is set.")
    /\ Len(ran) = 2

(***************************************************************************)
(* C12                                                                     *)
(***************************************************************************)
\* C12: unlock short-circuits: whenever its status query reports the device
\* as not locked, the invocation ends as the "already unlocked" success with
\* changed = false and rc = 0, and authunlock is never run, whatever the
\* other parameters.
C12_UnlockShortCircuit ==
    (/\ Done
     /\ params.action = "unlock"
     /\ GotFacts
     /\ HasKey(curr_auth, "locked")
     /\ curr_auth.locked # "yes")
    => /\ outcome = "exit_json"
       /\ results.msg = Msg("The provided device is already unlocked.")
       /\ ~results.changed
       /\ results.rc = 0
       /\ Len(ran) = 2
       /\ ~RanAuth

\* Witness of C12: an unlock of type pwd with a password and with
\* auto_key_protection, on an initialized device reported unlocked, ends as
\* the no-op.
C12_Witness ==
    /\ Done
    /\ params.action = "unlock"
    /\ params.auth_type = PWD
    /\ params.password = PW_STRONG
    /\ params.auto_key_protection
    /\ GotFacts
    /\ HasKey(curr_auth, "locked")
    /\ curr_auth.initialized = "yes"
    /\ curr_auth.locked = "no"
    /\ outcome = "exit_json"

(***************************************************************************)
(* C13                                                                     *)
(***************************************************************************)
\* C13: an invocation with action check never reports changed = true, at
\* any point and however it ends, whatever its parameters and whatever the
\* exit code of authcheck.
C13_CheckNeverChanged ==
    params.action = "check" => ~results.changed

\* Witness of C13: a check whose authcheck command returned 0, ended as a
\* success with the completion suffix.
C13_Witness ==
    /\ Done
    /\ params.action = "check"
    /\ outcome = "exit_json"
    /\ RanAuth
    /\ LastRun.rc = 0
    /\ results.msg.done = "check"
    /\ ~results.changed

(***************************************************************************)
(* C14                                                                     *)
(***************************************************************************)
\* C14: every invocation that ends in a failure (a validation failure, a
\* status-query failure, the wrong-password exit code 5, any other non-zero
\* exit code, an exception) reports changed = false; changed = true is
\* reported only by a success that follows exit code 0 of the action's
\* command.
C14_FailuresReportUnchanged ==
    /\ (Done /\ NotSucceeded) => ~results.changed
    /\ results.changed =>
            /\ outcome = "exit_json"
            /\ RanAuth
            /\ LastRun.rc = 0

\* Witness of C14: an unlock whose command ended with exit code 5, reported
\* as a failure with changed = false.
C14_Witness ==
    /\ Done
    /\ params.action = "unlock"
    /\ RanAuth
    /\ LastRun.rc = WRONG_PASSWORD_RC
    /\ outcome = "fail_json"
    /\ results.rc = WRONG_PASSWORD_RC
    /\ ~results.changed

(***************************************************************************)
(* C15                                                                     *)
(***************************************************************************)
\* The messages of the validation failures of the four handlers that have
\* any.
ValidationTexts ==
    {"The provided LV is uninitialized, you can not add authentication methods.",
     "You need to specify the type of authentication method to use.",
     "You need to provide the key file's location in auth_detail, when auth_type is set to keyfile.",
     "The provided authentication method's name is already present, kindly use a different one.",
     "In case of pwd auth type, you need to provide password.",
     "PKS authentication method already exists, can not add a new one.",
     "Please provide the authentication type of the method that you want to delete.",
     "The provided auth_index does not exist for this device's methods.",
     "The provided auth_name does not exist for this device's methods.",
     "You need to either provide the name or index of the method that you want to delete.",
     "You need to provide the location of key file with type=keyfile.",
     "You need to provide the auth_type that you want to use.",
     "Can not use auth_detail or auth_type when auth_key_protection is set.",
     "You need to provide password in case of pwd auth_type",
     "You need to provide the location in auth_detail, when type = keyfile.",
     "You need to provide the authentication type for action=check.",
     "You need to provide either index or name in case of keyfile auth_type.",
     "You need to provide keyfile path in auth_detail in case of keyfile auth_type."}

\* The parameters alone break a rule of add, delete, unlock or check: no
\* auth_type, pwd without a password, keyfile without an auth_detail.
ParamsInvalid ==
    /\ params.action # "initialize"
    /\ \/ ~Truthy(params.auth_type)
       \/ params.auth_type = PWD /\ params.password = None
       \/ params.auth_type = KEYFILE /\ ~Truthy(params.auth_detail)

\* C15: every validation failure is decided before the action's command is
\* run: an invocation that ended in a validation failure has run nothing but
\* the status query, and parameters that break a rule never let the
\* action's command run.
C15_ValidationBeforeCommand ==
    Done =>
        /\ (outcome = "fail_json" /\ results.msg.text \in ValidationTexts) =>
                /\ \A i \in DOMAIN ran : ran[i].command = ShowlvCmd(params.device)
                /\ results.rc = 0
                /\ ~results.changed
        /\ ParamsInvalid => ~RanAuth

\* Witness of C15: a delete of type pwd without a password, by a name the
\* status lists, refused by the last validation before the command.
C15_Witness ==
    /\ Done
    /\ params.action = "delete"
    /\ params.auth_type = PWD
    /\ params.password = None
    /\ params.auth_name = N1
    /\ GotFacts
    /\ InList(N1, curr_auth.auth_names)
    /\ results.msg = Msg("In case of pwd auth type, you need to provide password.")
    /\ Len(ran) = 2

(***************************************************************************)
(* C16                                                                     *)
(***************************************************************************)
\* C16, for the failures that follow the action's command (exit code 5 and
\* any other non-zero exit code): the failure carries the command line that
\* was attempted, in its message or in its cmd field.
C16_FailureCarriesCommand ==
    (Done /\ outcome = "fail_json" /\ RanAuth)
    => \/ results.msg.cmd = LastRun.command.cmd
       \/ results.cmd = LastRun.command.cmd

(***************************************************************************)
(* C17                                                                     *)
(***************************************************************************)
SuccessText(action) ==
    CASE action = "initialize" ->
            "Successfully initialized authentication method, command: {cmd}"
      [] action = "add" ->
            "Successfully added authentication method, command: {cmd}"
      [] action = "delete" ->
            "Successfully deleted the authentication method, command: {cmd}"
      [] action = "unlock" ->
            "Successfully unlocked the authentication method, command: {cmd}"
      [] action = "check" ->
            "Successfully checked the authentication method, command: {cmd}"

\* The messages of the two short-circuits.
ShortCircuitTexts ==
    {"No need to initialize, the LV is already initialized.",
     "The provided device is already unlocked."}

\* C17: every success that is not a short-circuit ends with the success
\* message of its action, which embeds the command line handed to
\* run_command for the action (for pwd, the one the expect script spawns),
\* followed by the completion suffix naming the action.
C17_SuccessEmbedsCommand ==
    (Done /\ outcome = "exit_json" /\ results.msg.text \notin ShortCircuitTexts)
    => /\ RanAuth
       /\ LastRun.rc = 0
       /\ results.msg.text = SuccessText(params.action)
       /\ results.msg.cmd = LastRun.command.cmd
       /\ results.msg.done = params.action

\* Witness of C17: an add of type pwd with a strong password and a name,
\* run under expect, ended as a success.
C17_Witness ==
    /\ Done
    /\ params.action = "add"
    /\ params.auth_name = N2
    /\ outcome = "exit_json"
    /\ RanAuth
    /\ LastRun.command.template = "authadd_strong_pwd"
    /\ results.msg.cmd = LastRun.command.cmd
    /\ results.msg.done = "add"

(***************************************************************************)
(* C18                                                                     *)
(***************************************************************************)
\* C18: the password is in the words of no process the module launches.
C18_PasswordNotInArgv ==
    Truthy(params.password) =>
        \A i \in DOMAIN ran : params.password \notin argv_values(ran[i].command)

(***************************************************************************)
(* get_auth_details alone, over free status texts                          *)
(***************************************************************************)
\* Largest number of lines of the content that follows a header.
MaxContent == 3

\* Another device of the same volume group.
OTHER_DEVICE == <<"o", "t">>

\* The lines of a content: the device's summary line with each status word,
\* slot lines with and without a name, and lines that are neither: the
\* summary line of another device, a line of one token, a blank line.
ContentLines ==
    SummaryLines
    \cup {<<<<"#", "0">>, T_Passphrase, N1>>,
          <<<<"#", "1">>, T_PKS>>,
          <<OTHER_DEVICE, W_locked>>,
          <<OTHER_DEVICE>>,
          <<>>}

\* A header and its content, the lines in any order.
ParseTexts == {<<Header>> \o c : c \in SeqsUpTo(ContentLines, MaxContent)}

ParseInit ==
    /\ params = Params("check", None, None, None, None, NoIndex, FALSE, FALSE)
    /\ lv_status \in ParseTexts
    /\ results = results_init
    /\ curr_auth = NoFacts
    /\ ran = <<>>
    /\ pc = "parse"
    /\ outcome = "running"
    /\ session = NoSession
    /\ tool = NoTool

\* get_auth_details(module, device) when the command's stdout is text.
Parsed(text, at) ==
    \E qrc \in QueryRCs :
        LET q == get_auth_details(results, text, params.device, qrc) IN
        /\ results' = q.results
        /\ curr_auth' = q.auth
        /\ ran' = Append(ran, Ran(ShowlvCmd(params.device), qrc))
        /\ pc' = at
        /\ outcome' = IF q.kind = "ok" THEN "running" ELSE q.kind
        /\ UNCHANGED <<params, lv_status, session, tool>>

\* The stdout is the header and content once.
ParseStatus ==
    /\ pc = "parse"
    /\ Parsed(lv_status, "parsed")

\* The stdout is the same header and content twice.
ParseStatusTwice ==
    /\ pc = "parse"
    /\ Parsed(lv_status \o lv_status, "parsed_twice")

ParseNext ==
    \/ ParseStatus
    \/ ParseStatusTwice

ParseSpec == ParseInit /\ [][ParseNext]_vars

(***************************************************************************)
(* C19                                                                     *)
(***************************************************************************)
\* C19: for every status text, the facts the parser returns satisfy: if
\* initialized is "no" then locked is "no" and no type bucket, index or name
\* is recorded.
C19_UninitializedHasNoMethods ==
    (/\ pc = "parsed"
     /\ GotFacts
     /\ HasKey(curr_auth, "initialized")
     /\ curr_auth.initialized = "no")
    => /\ curr_auth.locked = "no"
       /\ curr_auth.types = <<>>
       /\ curr_auth.index = <<>>
       /\ curr_auth.auth_names = <<>>

(***************************************************************************)
(* C20                                                                     *)
(***************************************************************************)
\* C20: parsing a status text in which the same header and content occur
\* twice yields the same facts as parsing it once.
C20_ParseTwiceSameFacts ==
    (pc = "parsed_twice" /\ GotFacts) => curr_auth = StatusFacts

(***************************************************************************)
(* C21                                                                     *)
(***************************************************************************)
\* C21, for the handlers that query the status, when the text lacks the
\* summary line of the device: the invocation ends as a failure and the
\* action's command is never run.
C21_MissingSummaryAborts ==
    (/\ Done
     /\ GotFacts
     /\ ~HasKey(curr_auth, "initialized"))
    => (NotSucceeded /\ ~RanAuth)

(***************************************************************************)
(* C25                                                                     *)
(***************************************************************************)
AddTextUninitialized ==
    "The provided LV is uninitialized, you can not add authentication methods."

AddTextType == "You need to specify the type of authentication method to use."

AddTextKeyfile ==
    "You need to provide the key file's location in auth_detail, when auth_type is set to keyfile."

AddTextName ==
    "The provided authentication method's name is already present, kindly use a different one."

AddTextPassword == "In case of pwd auth type, you need to provide password."

AddTextPks == "PKS authentication method already exists, can not add a new one."

\* C25 as stated: the duplicate-name rule comes before the missing keyfile
\* detail rule: an add on an initialized device, with an auth_type and with
\* an auth_name that already exists, reports the duplicate-name failure
\* whatever other rule it breaks.
C25_AddOrderAsListed ==
    (/\ Done
     /\ params.action = "add"
     /\ GotFacts
     /\ HasKey(curr_auth, "initialized")
     /\ curr_auth.initialized = "yes"
     /\ Truthy(params.auth_type)
     /\ Truthy(params.auth_name)
     /\ InList(params.auth_name, curr_auth.auth_names))
    => ValidationFailure(AddTextName)

\* C25 amended: the failure of an add is the one of the first rule broken
\* in the order: device uninitialized, auth_type missing, keyfile without
\* auth_detail, auth_name already present, then pwd without password or pks
\* already present; an add that breaks none of them runs authadd.
C25_AddOrderOfTheCode ==
    (/\ Done
     /\ params.action = "add"
     /\ GotFacts
     /\ HasKey(curr_auth, "initialized"))
    => LET uninitialized == curr_auth.initialized = "no"
           no_type == ~Truthy(params.auth_type)
           no_detail == params.auth_type = KEYFILE /\ ~Truthy(params.auth_detail)
           duplicate == /\ Truthy(params.auth_name)
                        /\ InList(params.auth_name, curr_auth.auth_names)
           no_password == params.auth_type = PWD /\ params.password = None
           second_pks == /\ params.auth_type = PKS
                         /\ \E i \in DOMAIN curr_auth.types :
                                curr_auth.types[i].type = PKS
       IN  IF uninitialized THEN ValidationFailure(AddTextUninitialized)
           ELSE IF no_type THEN ValidationFailure(AddTextType)
           ELSE IF no_detail THEN ValidationFailure(AddTextKeyfile)
           ELSE IF duplicate THEN ValidationFailure(AddTextName)
           ELSE IF no_password THEN ValidationFailure(AddTextPassword)
           ELSE IF second_pks THEN ValidationFailure(AddTextPks)
           ELSE RanAuth

\* Witness of C25: an add of type keyfile with no auth_detail and with a
\* name the status lists, refused for the missing key-file location.
C25_Witness ==
    /\ Done
    /\ params.action = "add"
    /\ params.auth_type = KEYFILE
    /\ params.auth_detail = None
    /\ params.auth_name = N1
    /\ GotFacts
    /\ HasKey(curr_auth, "initialized")
    /\ curr_auth.initialized = "yes"
    /\ InList(N1, curr_auth.auth_names)
    /\ results.msg = Msg(AddTextKeyfile)

(***************************************************************************)
(* C27                                                                     *)
(***************************************************************************)
\* C27: the action's command is handed to run_command inside an expect
\* template exactly when the action is initialize or auth_type is pwd; with
\* auth_type keyfile or pks it is the bare hdcryptmgr command line.
C27_WrappedIffPassphrase ==
    \A i \in DOMAIN ran :
        ran[i].command.cmd[1].f # "hdcryptmgr showlv" =>
            /\ (ran[i].command.template # "")
                    <=> (params.action = "initialize" \/ params.auth_type = PWD)
            /\ ran[i].command.template = "" =>
                    /\ params.auth_type \in {KEYFILE, PKS}
                    /\ ran[i].command.password = None

\* Witness of C27: a delete of type pwd run under the authdelete template.
C27_Witness ==
    /\ Done
    /\ params.action = "delete"
    /\ params.auth_type = PWD
    /\ RanAuth
    /\ LastRun.command.template = "authdelete"
    /\ LastRun.command.password = params.password

(***************************************************************************)
(* C29                                                                     *)
(***************************************************************************)
\* The status text is laid out as the tool prints it: the header, the
\* summary line of the device, then slot lines.
StatusAsPrinted ==
    /\ Len(lv_status) >= 2
    /\ lv_status[2] \in SummaryLines
    /\ \A i \in 3..Len(lv_status) :
            /\ Len(lv_status[i]) >= 2
            /\ HasHash(lv_status[i][1])

\* C29, for the status texts laid out as the tool prints them: every
\* invocation ends in a reported success or a reported failure, never with
\* an unhandled exception.
C29_NoUnhandledException ==
    (Done /\ StatusAsPrinted) => outcome \in {"exit_json", "fail_json"}

KnownLine(line) ==
    /\ Len(line) > 0
    /\ (line[1] = DEVICE \/ HasHash(line[1]))

\* C28: every line after the header that is neither the device's summary
\* line nor a slot line, a blank line and a line of one token included, is
\* skipped without an error: the facts are those of the text without these
\* lines.
C28_UnknownLinesSkipped ==
    (pc = "parsed" /\ ran[1].rc = 0)
    => /\ outcome = "running"
       /\ curr_auth =
            parse_lines(SelectSeq(DropFirst(lv_status), KnownLine),
                        DEVICE, auth_empty).auth

(***************************************************************************)
(* initialize and add of type pwd, over free passwords                     *)
(***************************************************************************)
\* Largest number of free characters at the head of a password.
MaxPrefix == 4

\* The characters of the head: one of each class of the pattern, and the
\* line feed.
PrefixChars == {"A", "b", "1", "!", LF}

\* The tails: nothing, or lowercase letters that bring a head of MaxPrefix
\* characters to 11 and to 12 characters.
Filler == <<"a", "a", "a", "a", "a", "a", "a", "a">>

Tails == {<<>>, SubSeq(Filler, 1, 7), Filler}

StrengthPasswords ==
    {h \o t : h \in SeqsUpTo(PrefixChars, MaxPrefix), t \in Tails}

\* The device before an initialize and before an add.
StrengthTexts ==
    {<<Header, <<DEVICE, W_uninitialized>>>>,
     <<Header, <<DEVICE, W_unlocked>>>>}

StrengthInit ==
    /\ params \in
         {Params("initialize", None, None, pw, None, NoIndex, FALSE, FALSE) :
             pw \in StrengthPasswords}
         \cup
         {Params("add", PWD, N1, pw, None, NoIndex, FALSE, FALSE) :
             pw \in StrengthPasswords}
    /\ lv_status \in StrengthTexts
    /\ results = results_init
    /\ curr_auth = NoFacts
    /\ ran = <<>>
    /\ pc = "main"
    /\ outcome = "running"
    /\ session = NoSession
    /\ tool = NoTool

StrengthNext ==
    \/ MainGetAuthDetails
    \/ AuthInit
    \/ AuthAdd
    \/ MainFinish

StrengthSpec == StrengthInit /\ [][StrengthNext]_vars

(***************************************************************************)
(* C26                                                                     *)
(***************************************************************************)
\* The predicate as stated: at least 12 characters, and a character of each
\* of the four classes.
StrongAsStated(password) ==
    LET has(class) == \E i \in DOMAIN password : password[i] \in class IN
    /\ Len(password) >= 12
    /\ has(SeqRange(UpperChars))
    /\ has(SeqRange(LowerChars))
    /\ has(SeqRange(Digits))
    /\ has(PunctChars)

\* C26: the strength predicate holds exactly for the passwords of at least
\* 12 characters with an uppercase letter, a lowercase letter, a digit and a
\* punctuation character, and a passphrase initialize or add runs under the
\* weak variant of its script exactly when the predicate is false, under the
\* strong variant otherwise.
C26_StrengthExactly ==
    (Done /\ RanAuth /\ params.action \in {"initialize", "add"}
          /\ Truthy(params.password) /\ LastRun.command.template # "")
    => /\ check_password_strength(params.password)
            = StrongAsStated(params.password)
       /\ LastRun.command.template =
            IF StrongAsStated(params.password)
            THEN (IF params.action = "initialize"
                  THEN "authinit_strong_pwd" ELSE "authadd_strong_pwd")
            ELSE (IF params.action = "initialize"
                  THEN "authinit_weak_pwd" ELSE "authadd_weak_pwd")

(***************************************************************************)
(* The expect session of a passphrase flow                                 *)
(***************************************************************************)
\* A text of the dialogue is the sequence of its words and of the spaces
\* between them; a name, a device or a passphrase in it is its characters.
Words(ws) ==
    [i \in 1..(2 * Len(ws) - 1) |->
        IF i % 2 = 1 THEN ws[(i + 1) \div 2] ELSE " "]

EnterPassphrase == Words(<<"Enter", "Passphrase:">>)

ConfirmPassphrase == Words(<<"Confirm", "Passphrase:">>)

ConfirmUnsecure ==
    Words(<<"Please", "confirm", "usage", "of", "an", "unsecure",
            "passphrase", "(y|n):">>) \o <<" ">>

AddedSuccessfully(name) ==
    Words(<<"Passphrase", "authentication", "method", "with", "name">>)
        \o <<" ", "\"">> \o name \o <<"\"", " ">>
        \o Words(<<"added", "successfully.">>)

\* The number of passphrase attempts hdcryptmgr allows.
ATTEMPT_LIMIT == 3

WrongPassphrase(n) ==
    Words(<<"Wrong", "passphrase.", "Try", "again">>)
        \o <<" ", "(">> \o IntToStr(n) \o <<"/">> \o IntToStr(ATTEMPT_LIMIT)
        \o <<")">>

UnlockFailed(device) ==
    Words(<<"hdcryptmgr", "authunlock", "failed", "for", "device">>)
        \o <<" ">> \o device \o <<".">>

DeleteFailed ==
    Words(<<"3020-0386", "Unable", "to", "check", "selected",
            "authentication", "method.">>)

CheckFailed ==
    Words(<<"3020-0464", "hdcryptmgr", "authcheck", "failed", "for",
            "device">>)

\* The name in the last pattern of the authinit scripts.
INITPWD == <<"i", "n", "i", "t", "p", "w", "d">>

\* The passphrases the scripts send at the second and third prompt.
WRONG == <<"w", "r", "o", "n", "g">>

WRONG_CAP == <<"W", "r", "o", "n", "g">>

\* expect "<pattern>";
ExpectClause(pattern) == [op |-> "expect", text |-> pattern, exit |-> NoRc]

\* expect "<pattern>" { exit <status> }
ExpectExit(pattern, status) ==
    [op |-> "expect", text |-> pattern, exit |-> status]

\* send "<line>\r";
SendClause(line) == [op |-> "send", text |-> line, exit |-> NoRc]

\* set timeout -1;
SetTimeoutOff == [op |-> "set timeout", text |-> <<>>, exit |-> NoRc]

\* The clauses of expectPrompts[key] after "spawn %s", with the values
\* formatted into them.
expect_script(command) ==
    LET v == script_values(command)
        sp == <<" ">>
        retry(prompt, wrong, last) ==
            <<ExpectClause(prompt), SendClause(v[1]),
              ExpectClause(WrongPassphrase(2)), ExpectClause(prompt),
              SendClause(wrong),
              ExpectClause(WrongPassphrase(3)), ExpectClause(prompt),
              SendClause(wrong),
              SetTimeoutOff, last>>
        weak(name) ==
            <<ExpectClause(EnterPassphrase), SendClause(v[1]),
              ExpectClause(ConfirmUnsecure), SendClause(<<"y">>),
              ExpectClause(ConfirmPassphrase), SendClause(v[2]),
              SetTimeoutOff, ExpectClause(AddedSuccessfully(name))>>
        strong(name) ==
            <<ExpectClause(EnterPassphrase \o sp), SendClause(v[1]),
              ExpectClause(ConfirmPassphrase \o sp), SendClause(v[2]),
              SetTimeoutOff, ExpectClause(AddedSuccessfully(name))>>
    IN
    CASE command.template = "authinit_weak_pwd" -> weak(INITPWD)
      [] command.template = "authinit_strong_pwd" -> strong(INITPWD)
      [] command.template = "authadd_weak_pwd" -> weak(v[3])
      [] command.template = "authadd_strong_pwd" -> strong(v[3])
      [] command.template = "unlock" ->
            retry(EnterPassphrase \o sp, WRONG,
                  ExpectExit(UnlockFailed(v[2]), 5))
      [] command.template = "authdelete" ->
            retry(EnterPassphrase \o sp, WRONG, ExpectExit(DeleteFailed, 5))
      [] command.template = "authcheck" ->
            <<ExpectClause(EnterPassphrase), SendClause(v[1]),
              ExpectClause(EnterPassphrase), SendClause(WRONG_CAP),
              ExpectClause(EnterPassphrase), SendClause(WRONG_CAP),
              SetTimeoutOff, ExpectExit(CheckFailed, 5)>>

\* The glob pattern occurs in the text.
Contains(text, pattern) ==
    \E i \in 1..(Len(text) - Len(pattern) + 1) :
        SubSeq(text, i, i + Len(pattern) - 1) = pattern

\* What expect keeps of its buffer after a match: the text after the first
\* occurrence of the pattern.
AfterMatch(text, pattern) ==
    LET at(i) == SubSeq(text, i, i + Len(pattern) - 1) = pattern
        first == CHOOSE i \in 1..(Len(text) - Len(pattern) + 1) :
                    at(i) /\ \A j \in 1..(i - 1) : ~at(j)
    IN  SubSeq(text, first + Len(pattern), Len(text))

(***************************************************************************)
(* hdcryptmgr as the scripts expect it to converse                         *)
(***************************************************************************)
\* The subcommand sets a passphrase (authinit, authadd) rather than asks
\* for the device's.
SetsPassphrase(command) ==
    command.cmd[1].f \in {"/usr/sbin/hdcryptmgr authinit",
                          "/usr/sbin/hdcryptmgr authadd"}

\* The name of the method: that of -n, and initpwd without it.
MethodName(command) ==
    IF \E i \in DOMAIN command.cmd : command.cmd[i].f = "-n"
    THEN command.cmd[CHOOSE i \in DOMAIN command.cmd : command.cmd[i].f = "-n"].v
    ELSE INITPWD

\* The text the process writes at a writing position.
ToolText(t, command) ==
    CASE t.pc = "enter" -> EnterPassphrase \o <<" ">>
      [] t.pc = "unsecure" -> ConfirmUnsecure
      [] t.pc = "confirm" -> ConfirmPassphrase \o <<" ">>
      [] t.pc = "added" -> AddedSuccessfully(MethodName(command))
      [] t.pc = "wrong" -> WrongPassphrase(t.attempt)
      [] t.pc = "failed" ->
            CASE command.template = "unlock" ->
                    UnlockFailed(command.cmd[Len(command.cmd)].v)
              [] command.template = "authdelete" -> DeleteFailed
              [] OTHER -> CheckFailed

\* The process after it wrote.
ToolWrote(t) ==
    [t EXCEPT !.pc =
        CASE t.pc = "enter" -> "read"
          [] t.pc = "unsecure" -> "read_unsecure"
          [] t.pc = "confirm" -> "read_confirm"
          [] t.pc = "wrong" -> "enter"
          [] OTHER -> "exited"]

\* The process after it read a line.
ToolGot(t, command, line) ==
    CASE t.pc = "read" /\ SetsPassphrase(command) ->
            [t EXCEPT !.first = line,
                      !.pc = IF t.unsecure THEN "unsecure" ELSE "confirm"]
      [] t.pc = "read" /\ ~SetsPassphrase(command) ->
            IF line = t.actual THEN [t EXCEPT !.pc = "exited"]
            ELSE IF t.attempt < ATTEMPT_LIMIT
            THEN [t EXCEPT !.pc = "wrong", !.attempt = @ + 1]
            ELSE [t EXCEPT !.pc = "failed"]
      [] t.pc = "read_unsecure" ->
            [t EXCEPT !.pc = IF line = <<"y">> THEN "confirm" ELSE "exited"]
      [] t.pc = "read_confirm" ->
            [t EXCEPT !.pc = IF line = t.first /\ ~t.fails
                             THEN "added" ELSE "exited"]

(***************************************************************************)
(* main with the session of its run_command                                *)
(***************************************************************************)
\* The dispatch of main on action.
handler(p, text, qrc, rc, res) ==
    CASE p.action = "initialize" -> auth_init(p, text, qrc, rc, res)
      [] p.action = "add" -> auth_add(p, text, qrc, rc, res)
      [] p.action = "unlock" -> auth_unlock(p, text, qrc, rc, res)
      [] p.action = "delete" -> auth_delete(p, text, qrc, rc, res)
      [] OTHER -> auth_check(p, text, qrc, rc, res)

\* The handler reached its run_command with an expect command line.
Spawns(r) == r.ran # <<>> /\ r.ran[Len(r.ran)].command.template # ""

\* The passphrase flows: every action with a weak and with a strong
\* password.
SessionParams ==
    {Params("initialize", None, n, pw, None, NoIndex, FALSE, FALSE) :
        n \in {None, N1}, pw \in {PW_WEAK, PW_STRONG}}
    \cup
    {Params(a, PWD, N1, pw, None, NoIndex, FALSE, FALSE) :
        a \in {"add", "delete", "check"}, pw \in {PW_WEAK, PW_STRONG}}
    \cup
    {Params("unlock", PWD, None, pw, None, NoIndex, FALSE, FALSE) :
        pw \in {PW_WEAK, PW_STRONG}}

\* The status of a device on which the action reaches its command.
SessionStatus(action) ==
    CASE action = "initialize" -> <<Header, <<DEVICE, W_uninitialized>>>>
      [] action = "add" -> <<Header, <<DEVICE, W_unlocked>>>>
      [] action = "unlock" ->
            <<Header, <<DEVICE, W_locked>>, <<<<"#", "0">>, T_Passphrase, N1>>>>
      [] OTHER ->
            <<Header, <<DEVICE, W_unlocked>>, <<<<"#", "0">>, T_Passphrase, N1>>>>

\* The passphrases a device may have.
Passphrases == {PW_WEAK, PW_STRONG, WRONG, WRONG_CAP}

\* What the module does not decide: the passphrase of the device, whether
\* hdcryptmgr finds a new passphrase unsecure, and whether it fails to
\* store the new method.
ToolInits(action) ==
    IF action \in {"initialize", "add"}
    THEN {[NoTool EXCEPT !.unsecure = u, !.fails = f] : u, f \in BOOLEAN}
    ELSE {[NoTool EXCEPT !.actual = a] : a \in Passphrases}

SessionInit ==
    /\ params \in SessionParams
    /\ lv_status = SessionStatus(params.action)
    /\ results = results_init
    /\ curr_auth = NoFacts
    /\ ran = <<>>
    /\ pc = "main"
    /\ outcome = "running"
    /\ session = NoSession
    /\ tool \in ToolInits(params.action)

\* The handler ends before its run_command.
SessionSkipped ==
    /\ pc = "dispatch"
    /\ \E qrc \in QueryRCs :
        LET r == handler(params, lv_status, qrc, 0, results) IN
        /\ ~Spawns(r)
        /\ Handled(r)

\* module.run_command(cmd) of the handler starts /usr/bin/expect, whose
\* script spawns the command line.
SessionSpawn ==
    /\ pc = "dispatch"
    /\ \E qrc \in QueryRCs :
        LET r == handler(params, lv_status, qrc, 0, results)
            command == r.ran[Len(r.ran)].command
        IN
        /\ Spawns(r)
        /\ session' = [NoSession EXCEPT
                !.script = expect_script(command),
                !.command = command,
                !.qrc = qrc,
                !.ip = 1,
                !.open = TRUE]
    /\ tool' = [tool EXCEPT !.pc = "enter", !.attempt = 1]
    /\ pc' = "session"
    /\ UNCHANGED <<params, lv_status, results, curr_auth, ran, outcome>>

\* The script is at a clause of the given kind.
AtClause(op) ==
    /\ pc = "session"
    /\ session.rc = NoRc
    /\ session.ip <= Len(session.script)
    /\ session.script[session.ip].op = op

\* Nothing but the two processes moves during run_command.
SessionFrame == UNCHANGED <<params, lv_status, results, curr_auth, ran, pc, outcome>>

\* expect: the pattern is in what the process wrote.  The body of the
\* clause, if any, exits the script.
SessionExpect ==
    /\ AtClause("expect")
    /\ session.open
    /\ LET clause == session.script[session.ip] IN
        /\ Contains(session.buf, clause.text)
        /\ session' = [session EXCEPT
                !.buf = AfterMatch(session.buf, clause.text),
                !.ip = @ + 1,
                !.seen = session.ip = Len(session.script),
                !.rc = clause.exit]
    /\ UNCHANGED tool
    /\ SessionFrame

\* expect: the timeout passes before the pattern is there, and the script
\* goes on with the next clause.
SessionTimeout ==
    /\ AtClause("expect")
    /\ session.open
    /\ session.bounded
    /\ tool.pc # "exited"
    /\ ~Contains(session.buf, session.script[session.ip].text)
    /\ session' = [session EXCEPT !.ip = @ + 1, !.timed_out = TRUE]
    /\ UNCHANGED tool
    /\ SessionFrame

\* expect: the process has ended without the pattern; expect closes the
\* spawn id and the script goes on with the next clause.
SessionEof ==
    /\ AtClause("expect")
    /\ session.open
    /\ tool.pc = "exited"
    /\ ~Contains(session.buf, session.script[session.ip].text)
    /\ session' = [session EXCEPT !.ip = @ + 1, !.open = FALSE, !.buf = <<>>]
    /\ UNCHANGED tool
    /\ SessionFrame

\* send: the line goes to the process.
SessionSend ==
    /\ AtClause("send")
    /\ session.open
    /\ session' = [session EXCEPT
            !.inq = Append(@, session.script[session.ip].text),
            !.ip = @ + 1,
            !.sent_after = session.timed_out]
    /\ UNCHANGED tool
    /\ SessionFrame

\* set timeout -1
SessionSetTimeout ==
    /\ AtClause("set timeout")
    /\ session' = [session EXCEPT !.bounded = FALSE, !.ip = @ + 1]
    /\ UNCHANGED tool
    /\ SessionFrame

\* expect or send on a spawn id that is not open: an error, which ends
\* the script with status 1.
SessionClosed ==
    /\ \/ AtClause("expect")
       \/ AtClause("send")
    /\ ~session.open
    /\ session' = [session EXCEPT !.rc = 1]
    /\ UNCHANGED tool
    /\ SessionFrame

\* The end of the script: status 0.
SessionEnd ==
    /\ pc = "session"
    /\ session.rc = NoRc
    /\ session.ip > Len(session.script)
    /\ session' = [session EXCEPT !.rc = 0]
    /\ UNCHANGED tool
    /\ SessionFrame

\* hdcryptmgr writes a prompt or a message.
ToolWrite ==
    /\ pc = "session"
    /\ session.rc = NoRc
    /\ tool.pc \in {"enter", "unsecure", "confirm", "added", "wrong", "failed"}
    /\ session' = [session EXCEPT
            !.buf = IF session.open
                    THEN @ \o ToolText(tool, session.command) ELSE @]
    /\ tool' = ToolWrote(tool)
    /\ SessionFrame

\* hdcryptmgr reads the line it waits for.
ToolRead ==
    /\ pc = "session"
    /\ session.rc = NoRc
    /\ tool.pc \in {"read", "read_unsecure", "read_confirm"}
    /\ session.inq # <<>>
    /\ session' = [session EXCEPT !.inq = Tail(@)]
    /\ tool' = ToolGot(tool, session.command, Head(session.inq))
    /\ SessionFrame

\* rc, stdout, stderr = module.run_command(cmd), and the rest of the
\* handler.
SessionReturn ==
    /\ pc = "session"
    /\ session.rc # NoRc
    /\ Handled(handler(params, lv_status, session.qrc, session.rc, results))

SessionNext ==
    \/ MainGetAuthDetails
    \/ SessionSkipped
    \/ SessionSpawn
    \/ SessionExpect
    \/ SessionTimeout
    \/ SessionEof
    \/ SessionSend
    \/ SessionSetTimeout
    \/ SessionClosed
    \/ SessionEnd
    \/ ToolWrite
    \/ ToolRead
    \/ SessionReturn
    \/ MainFinish

SessionSpec == SessionInit /\ [][SessionNext]_vars

\* run_command ran an expect script.
Spawned == session.script # <<>>

(***************************************************************************)
(* C22                                                                     *)
(***************************************************************************)
\* C22, for the sessions in which every prompt came within the timeout: an
\* unlock, delete or check whose password differs from the passphrase of
\* the device ends as the wrong-password failure of exit code 5.
C22_WrongSecretEndsFive ==
    (/\ Done
     /\ Spawned
     /\ params.action \in {"unlock", "delete", "check"}
     /\ ~session.timed_out
     /\ params.password # tool.actual)
    => /\ session.rc = WRONG_PASSWORD_RC
       /\ outcome = "fail_json"
       /\ results.rc = WRONG_PASSWORD_RC

(***************************************************************************)
(* C23                                                                     *)
(***************************************************************************)
\* C23, for the sessions in which every prompt came within the timeout: an
\* initialize or add of a passphrase is reported as a success only if the
\* last pattern of its script, "added successfully", was matched.
C23_SuccessOnlyOnPattern ==
    (/\ Done
     /\ Spawned
     /\ params.action \in {"initialize", "add"}
     /\ ~session.timed_out
     /\ outcome = "exit_json")
    => session.seen

(***************************************************************************)
(* C24                                                                     *)
(***************************************************************************)
\* C24: after a wait for a prompt ended by timeout the script sends no
\* further response, and the action ends in failure.
C24_TimeoutFailsFast ==
    session.timed_out
    => /\ ~session.sent_after
       /\ Done => NotSucceeded

====
